---- MODULE Spec2Model ----
(***************************************************************************)
(* Model of myia/prim/py_implementations.py: the primitive implementations *)
(* of the debug VM, their two registries, the iterator protocol and the    *)
(* copy-then-mutate primitives.                                            *)
(*                                                                         *)
(* Python values are tagged records (field k is the kind).  A primitive    *)
(* returns a result record: err = "" and val on success, err = the name of *)
(* the exception raised otherwise.                                         *)
(***************************************************************************)
EXTENDS Integers, Sequences, FiniteSets, TLC

VARIABLES
    py_implementations,   \* registry: primitive -> pure implementation
    vm_implementations,   \* registry: primitive -> VM implementation
    loaded,               \* number of module-level definitions executed
    call,                 \* the last primitive call made by the driver
    ret,                  \* what the two paths returned for it
    xs,                   \* iterator driver: the source sequence
    it,                   \* iterator driver: the current (cursor, source)
    out,                  \* iterator driver: the values next returned
    calls,                \* iterator driver: number of calls to next
    status,               \* iterator driver: "" or the error of the last next
    more,                 \* iterator driver: the last answer of hasnext
    heap,                 \* object store: address -> mutable object
    hcall,                \* heap driver: the last setitem/setattr call
    hret                  \* heap driver: its result

vars == <<py_implementations, vm_implementations, loaded, call, ret,
          xs, it, out, calls, status, more, heap, hcall, hret>>

(***************************************************************************)
(* Bounds of the explored inputs.                                          *)
(***************************************************************************)
MaxLen == 3        \* longest sequence, tuple or array line
MaxInt == 3        \* integers range over 0..MaxInt
MaxArgs == 2       \* longest argument list of a generic call
MaxWidth == 2      \* longest tuple or list given to typeof
MaxDepth == 2      \* deepest nesting of the values given to typeof
MaxElem == 3       \* array elements range over 1..MaxElem
MaxDim == 2        \* largest dimension of a 2-d array
MaxHeap == 4       \* objects the store may hold

Ints == 0..MaxInt

(***************************************************************************)
(* Results and Python values.                                              *)
(***************************************************************************)
Ok(v) == [err |-> "", val |-> v]

Raise(e) == [err |-> e]

IsOk(r) == r.err = ""

PyInt(n) == [k |-> "int", n |-> n]

PyFloat(n) == [k |-> "float", n |-> n]

PyBool(b) == [k |-> "bool", b |-> b]

PyTuple(s) == [k |-> "tuple", items |-> s]

PyList(s) == [k |-> "list", items |-> s]

PyStr(s) == [k |-> "str", s |-> s]

PyNone == [k |-> "none"]

PyClass(c) == [k |-> "class", name |-> c]

\* Sequences over S of length lo..hi.
SeqsOf(S, lo, hi) == UNION {[1..n -> S] : n \in lo..hi}

\* Python's data[i] on a sequence: negative indices count from the end.
PyIndex(s, i) ==
    IF i >= 0 /\ i < Len(s) THEN Ok(s[i + 1])
    ELSE IF i < 0 /\ i >= -Len(s) THEN Ok(s[Len(s) + i + 1])
    ELSE Raise("IndexError")

(***************************************************************************)
(* Kinds of values.                                                        *)
(***************************************************************************)
IsSeq(x) == x.k \in {"tuple", "list"}

IsIndex(x) == x.k \in {"int", "bool"}

\* The value of an int, bool or (whole) float used as a number.
IntOf(x) == IF x.k = "bool" THEN (IF x.b THEN 1 ELSE 0) ELSE x.n

\* An n-dimensional array: its shape and its elements in row-major order.
PyArray(shape_, data) == [k |-> "array", shape |-> shape_, data |-> data]

\* type(x).__name__
TypeName(x) ==
    CASE x.k = "none" -> "NoneType"
      [] x.k = "array" -> "ndarray"
      [] x.k = "class" -> "type"
      [] x.k = "dtype" -> x.tag
      [] OTHER -> x.k

(***************************************************************************)
(* The type model (module dtype): immutable type instances compared        *)
(* structurally, and their classes, all subclasses of Type.                *)
(***************************************************************************)
DBool == [k |-> "dtype", tag |-> "Bool"]

DInt(bits) == [k |-> "dtype", tag |-> "Int", bits |-> bits]

DFloat(bits) == [k |-> "dtype", tag |-> "Float", bits |-> bits]

DTuple(elements) == [k |-> "dtype", tag |-> "Tuple", elements |-> elements]

DList(element_type) ==
    [k |-> "dtype", tag |-> "List", element_type |-> element_type]

DExternal(t) == [k |-> "dtype", tag |-> "External", t |-> t]

TypeClass == PyClass("Type")

DtypeClassNames == {"Type", "Bool", "Int", "Float", "Tuple", "List", "External"}

\* isinstance(x, types.Type)
IsDtype(x) == x.k = "dtype"

\* issubclass(c, types.Type) for a class c
IsDtypeClass(c) == c.name \in DtypeClassNames

\* isinstance(t, c) for a class c of the type model
IsInstanceOf(t, c) == IsDtype(t) /\ (c.name = "Type" \/ c.name = t.tag)

(***************************************************************************)
(* typeof and hastype.                                                     *)
(***************************************************************************)
RECURSIVE typeof(_)
typeof(x) ==
    IF IsDtype(x) \/ x.k = "class" THEN Ok(TypeClass)
    ELSE IF x.k = "bool" THEN Ok(DBool)
    ELSE IF x.k = "int" THEN Ok(DInt(64))
    ELSE IF x.k = "float" THEN Ok(DFloat(64))
    ELSE IF x.k = "tuple" THEN
        LET ts == [i \in 1..Len(x.items) |-> typeof(x.items[i])]
            bad == {i \in 1..Len(x.items) : ~IsOk(ts[i])}
        IN IF bad # {}
           THEN ts[CHOOSE i \in bad : \A j \in bad : i <= j]
           ELSE Ok(DTuple([i \in 1..Len(x.items) |-> ts[i].val]))
    ELSE IF x.k = "list" /\ Len(x.items) > 0 THEN
        LET ts == [i \in 1..Len(x.items) |-> typeof(x.items[i])]
            bad == {i \in 1..Len(x.items) : ~IsOk(ts[i])}
        IN IF bad # {}
           THEN ts[CHOOSE i \in bad : \A j \in bad : i <= j]
           ELSE IF \E i \in 2..Len(x.items) : ts[i].val # ts[1].val
           THEN Raise("TypeError")
           ELSE Ok(DList(ts[1].val))
    ELSE Ok(DExternal(TypeName(x)))

\* hastype_helper changed to test class membership only.
hastype_helper_classonly(t, model) ==
    model.k = "class" /\ IsDtypeClass(model) /\ IsInstanceOf(t, model)

hastype_helper(t, model) ==
    IF t = model THEN TRUE
    ELSE IF model.k = "class" /\ IsDtypeClass(model) THEN IsInstanceOf(t, model)
    ELSE FALSE

hastype(x, t) ==
    LET tx == typeof(x)
    IN IF IsOk(tx) THEN Ok(PyBool(hastype_helper(tx.val, t))) ELSE tx

(***************************************************************************)
(* Scalars.                                                                *)
(***************************************************************************)
\* The error _assert_scalar raises on args, "" when it accepts them all.
_assert_scalar(args) ==
    IF \E i \in 1..Len(args) :
          \/ args[i].k = "array" /\ args[i].shape # <<>>
          \/ args[i].k \notin {"array", "int", "bool", "float"}
    THEN "TypeError" ELSE ""

\* The number a scalar stands for (a 0-d array holds one element).
NumOf(x) == IF x.k = "array" THEN x.data[1] ELSE IntOf(x)

\* The value of an arithmetic result n computed from the scalars args:
\* a numpy scalar if an operand is an array, else a float if one is, else int.
Arith(args, n) ==
    IF \E i \in 1..Len(args) : args[i].k = "array"
        THEN [k |-> "npscalar", n |-> n]
    ELSE IF \E i \in 1..Len(args) : args[i].k = "float" THEN PyFloat(n)
    ELSE PyInt(n)

\* The value of a comparison result.
Compare(args, b) ==
    IF \E i \in 1..Len(args) : args[i].k = "array"
        THEN [k |-> "npbool", b |-> b]
    ELSE PyBool(b)

scalar_add(x, y) ==
    IF _assert_scalar(<<x, y>>) # "" THEN Raise(_assert_scalar(<<x, y>>))
    ELSE Ok(Arith(<<x, y>>, NumOf(x) + NumOf(y)))

scalar_sub(x, y) ==
    IF _assert_scalar(<<x, y>>) # "" THEN Raise(_assert_scalar(<<x, y>>))
    ELSE Ok(Arith(<<x, y>>, NumOf(x) - NumOf(y)))

scalar_mul(x, y) ==
    IF _assert_scalar(<<x, y>>) # "" THEN Raise(_assert_scalar(<<x, y>>))
    ELSE Ok(Arith(<<x, y>>, NumOf(x) * NumOf(y)))

scalar_uadd(x) ==
    IF _assert_scalar(<<x>>) # "" THEN Raise(_assert_scalar(<<x>>))
    ELSE Ok(x)

scalar_usub(x) ==
    IF _assert_scalar(<<x>>) # "" THEN Raise(_assert_scalar(<<x>>))
    ELSE Ok(Arith(<<x>>, -NumOf(x)))

scalar_eq(x, y) ==
    IF _assert_scalar(<<x, y>>) # "" THEN Raise(_assert_scalar(<<x, y>>))
    ELSE Ok(Compare(<<x, y>>, NumOf(x) = NumOf(y)))

scalar_lt(x, y) ==
    IF _assert_scalar(<<x, y>>) # "" THEN Raise(_assert_scalar(<<x, y>>))
    ELSE Ok(Compare(<<x, y>>, NumOf(x) < NumOf(y)))

scalar_gt(x, y) ==
    IF _assert_scalar(<<x, y>>) # "" THEN Raise(_assert_scalar(<<x, y>>))
    ELSE Ok(Compare(<<x, y>>, NumOf(x) > NumOf(y)))

scalar_ne(x, y) ==
    IF _assert_scalar(<<x, y>>) # "" THEN Raise(_assert_scalar(<<x, y>>))
    ELSE Ok(Compare(<<x, y>>, NumOf(x) # NumOf(y)))

scalar_le(x, y) ==
    IF _assert_scalar(<<x, y>>) # "" THEN Raise(_assert_scalar(<<x, y>>))
    ELSE Ok(Compare(<<x, y>>, NumOf(x) <= NumOf(y)))

scalar_ge(x, y) ==
    IF _assert_scalar(<<x, y>>) # "" THEN Raise(_assert_scalar(<<x, y>>))
    ELSE Ok(Compare(<<x, y>>, NumOf(x) >= NumOf(y)))

bool_not(x) ==
    IF x.k # "bool" THEN Raise("AssertionError") ELSE Ok(PyBool(~x.b))

return_(x) == Ok(x)

(***************************************************************************)
(* Tuples.                                                                 *)
(***************************************************************************)
\* cons_tuple changed to put head after tail.
cons_tuple_append(head_, tail_) ==
    IF tail_.k # "tuple" THEN Raise("TypeError")
    ELSE Ok(PyTuple(tail_.items \o <<head_>>))

cons_tuple(head_, tail_) ==
    IF tail_.k # "tuple" THEN Raise("TypeError")
    ELSE Ok(PyTuple(<<head_>> \o tail_.items))

head(tup) ==
    IF ~IsSeq(tup) THEN Raise("TypeError") ELSE PyIndex(tup.items, 0)

tail(tup) ==
    IF ~IsSeq(tup) THEN Raise("TypeError")
    ELSE Ok([k |-> tup.k, items |-> SubSeq(tup.items, 2, Len(tup.items))])

(***************************************************************************)
(* Iterators: an iterator is the Python pair (cursor, source).             *)
(***************************************************************************)
\* The failure of "n, data = it", "" when the unpacking succeeds.
Unpack2(it_) ==
    IF ~IsSeq(it_) THEN "TypeError"
    ELSE IF Len(it_.items) # 2 THEN "ValueError"
    ELSE ""

_iter(xs_) == Ok(PyTuple(<<PyInt(0), xs_>>))

_hasnext(it_) ==
    IF Unpack2(it_) # "" THEN Raise(Unpack2(it_))
    ELSE LET n == it_.items[1]
             data == it_.items[2]
         IN IF ~IsSeq(data) \/ n.k \notin {"int", "bool", "float"}
            THEN Raise("TypeError")
            ELSE Ok(PyBool(IntOf(n) < Len(data.items)))

\* _next changed to hand out a None sentinel at exhaustion instead of failing.
_next_sentinel(it_) ==
    LET n == it_.items[1]
        data == it_.items[2]
        x == PyIndex(data.items, IntOf(n))
    IN Ok(PyTuple(<<IF IsOk(x) THEN x.val ELSE PyNone,
                    PyTuple(<<PyInt(IntOf(n) + 1), data>>)>>))

_next(it_) ==
    IF Unpack2(it_) # "" THEN Raise(Unpack2(it_))
    ELSE LET n == it_.items[1]
             data == it_.items[2]
         IN IF ~IsSeq(data) \/ ~IsIndex(n) THEN Raise("TypeError")
            ELSE LET x == PyIndex(data.items, IntOf(n))
                 IN IF IsOk(x)
                    THEN Ok(PyTuple(<<x.val,
                                      PyTuple(<<PyInt(IntOf(n) + 1), data>>)>>))
                    ELSE x

(***************************************************************************)
(* Callables and the host.  A callable is a value: a native function, a    *)
(* function of the host (a graph), or one of the closures this module      *)
(* builds.  Calls made through the host are recorded in a log, which every *)
(* operator that may call back takes and returns (field log).              *)
(***************************************************************************)
LOk(l, v) == [err |-> "", val |-> v, log |-> l]

LRaise(l, e) == [err |-> e, log |-> l]

Native(name) == [k |-> "native", name |-> name]

Graph(name) == [k |-> "graph", name |-> name]

Vm(name) == [k |-> "vm", name |-> name]

Closure(def, vm, fn) == [k |-> "closure", def |-> def, vm |-> vm, fn |-> fn]

IsNum(x) == x.k \in {"int", "bool", "float", "npscalar"}
            \/ (x.k = "array" /\ x.shape = <<>>)

\* What the function called name computes on args.
Compute(name, args) ==
    IF \E i \in 1..Len(args) : ~IsNum(args[i]) THEN Raise("TypeError")
    ELSE IF name \in {"inc", "dbl"} /\ Len(args) = 1
        THEN Ok(PyInt(IF name = "inc" THEN NumOf(args[1]) + 1
                      ELSE 2 * NumOf(args[1])))
    ELSE IF name \in {"add", "sub"} /\ Len(args) = 2
        THEN Ok(PyInt(IF name = "add" THEN NumOf(args[1]) + NumOf(args[2])
                      ELSE NumOf(args[1]) - NumOf(args[2])))
    ELSE Raise("TypeError")

\* r, the result of a call that left the log at l.
Logged(l, r) == IF IsOk(r) THEN LOk(l, r.val) ELSE LRaise(l, r.err)

\* The host's call hook: runs fn on args, the call recorded.
invoke(l, fn, args) ==
    Logged(Append(l, [fn |-> fn, args |-> args]),
           IF fn.k \in {"graph", "native"} THEN Compute(fn.name, args)
           ELSE Raise("TypeError"))

\* vm.call(fn, args) on the host vm; the no-op host runs nothing.
VmCall(vm, l, fn, args) ==
    IF vm.k # "vm" THEN LRaise(l, "AttributeError")
    ELSE IF vm.name = "invoke" THEN invoke(l, fn, args)
    ELSE LOk(Append(l, [fn |-> fn, args |-> args]), PyNone)

\* The closures of the VM implementations: fn_ of _array_map_vm takes one
\* argument, fn_ of _array_scan_vm and _array_reduce_vm two, f_ of
\* _list_map_vm any number.
ClosureArity(def, n) ==
    \/ def = "_array_map_vm.fn_" /\ n = 1
    \/ def \in {"_array_scan_vm.fn_", "_array_reduce_vm.fn_"} /\ n = 2
    \/ def = "_list_map_vm.f_"

\* Python's call of the value f on the arguments args.
PyApply(l, f, args) ==
    IF f.k = "native" THEN Logged(l, Compute(f.name, args))
    ELSE IF f.k # "closure" THEN LRaise(l, "TypeError")
    ELSE IF f.def = "forward" THEN invoke(l, f.fn, args)
    ELSE IF ~ClosureArity(f.def, Len(args)) THEN LRaise(l, "TypeError")
    ELSE VmCall(f.vm, l, f.fn, args)

(***************************************************************************)
(* Arrays of one or two dimensions and numpy's apply_along_axis.           *)
(***************************************************************************)
Arr0(n) == PyArray(<<>>, <<n>>)

NDim(array) == Len(array.shape)

Size(array) == Len(array.data)

\* The 1-d lines of array along axis, in the order they are visited.
Lines(array, axis) ==
    IF NDim(array) = 1 THEN <<array.data>>
    ELSE LET r == array.shape[1]
             c == array.shape[2]
         IN IF axis = 0
            THEN [j \in 1..c |-> [i \in 1..r |-> array.data[(i - 1) * c + j]]]
            ELSE [i \in 1..r |-> [j \in 1..c |-> array.data[(i - 1) * c + j]]]

\* The array made of the lines outs put back along axis.
FromLines(array, axis, outs) ==
    IF NDim(array) = 1 THEN PyArray(array.shape, outs[1])
    ELSE LET r == array.shape[1]
             c == array.shape[2]
         IN PyArray(array.shape,
                [p \in 1..(r * c) |->
                    LET i == ((p - 1) \div c) + 1
                        j == ((p - 1) % c) + 1
                    IN IF axis = 0 THEN outs[j][i] ELSE outs[i][j]])

\* The array made of one value per line: the axis dimension is dropped.
FromScalars(array, axis, outs) ==
    IF NDim(array) = 1 THEN Arr0(outs[1])
    ELSE PyArray(<<array.shape[IF axis = 0 THEN 2 ELSE 1]>>, outs)

\* "y[...] = fn(x)" of array_map.f, r being what fn(x) gave.
MapStore(p, r) ==
    IF ~IsOk(r) THEN [err |-> r.err, y |-> p.y, log |-> r.log]
    ELSE IF ~IsNum(r.val) THEN [err |-> "TypeError", y |-> p.y, log |-> r.log]
    ELSE [err |-> "", y |-> Append(p.y, NumOf(r.val)), log |-> r.log]

\* One round of the loop "for x, y in it" of array_map.f on the element x.
MapStep(p, fn, x) ==
    IF p.err # "" THEN p ELSE MapStore(p, PyApply(p.log, fn, <<Arr0(x)>>))

MapLine(l, fn, ary) ==
    LET go[i \in 0..Len(ary)] ==
          IF i = 0 THEN [err |-> "", y |-> <<>>, log |-> l]
          ELSE MapStep(go[i - 1], fn, ary[i])
    IN go[Len(ary)]

\* ScanStore changed to store the value held before the call (exclusive scan).
ScanStore_exclusive(p, r) ==
    IF ~IsOk(r) THEN [err |-> r.err, val |-> p.val, y |-> p.y, log |-> r.log]
    ELSE [err |-> "", val |-> r.val, y |-> Append(p.y, NumOf(p.val)),
          log |-> r.log]

\* "val = fn(val, x); y[...] = val" of array_scan.f, r being what fn gave.
ScanStore(p, r) ==
    IF ~IsOk(r) THEN [err |-> r.err, val |-> p.val, y |-> p.y, log |-> r.log]
    ELSE IF ~IsNum(r.val)
        THEN [err |-> "TypeError", val |-> r.val, y |-> p.y, log |-> r.log]
    ELSE [err |-> "", val |-> r.val, y |-> Append(p.y, NumOf(r.val)),
          log |-> r.log]

\* One round of the loop of array_scan.f on the element x.
ScanStep(p, fn, x) ==
    IF p.err # "" THEN p
    ELSE ScanStore(p, PyApply(p.log, fn, <<p.val, Arr0(x)>>))

ScanLine(l, fn, init, ary) ==
    LET go[i \in 0..Len(ary)] ==
          IF i = 0 THEN [err |-> "", val |-> init, y |-> <<>>, log |-> l]
          ELSE ScanStep(go[i - 1], fn, ary[i])
    IN go[Len(ary)]

\* "val = fn(val, x)" of array_reduce.f, r being what fn gave.
ReduceStore(p, r) ==
    IF ~IsOk(r) THEN [err |-> r.err, val |-> p.val, log |-> r.log]
    ELSE [err |-> "", val |-> r.val, log |-> r.log]

\* ReduceStep changed to call fn(x, val).
ReduceStep_swapped(p, fn, x) ==
    IF p.err # "" THEN p
    ELSE ReduceStore(p, PyApply(p.log, fn, <<Arr0(x), p.val>>))

\* One round of the loop of array_reduce.f on the element x.
ReduceStep(p, fn, x) ==
    IF p.err # "" THEN p
    ELSE ReduceStore(p, PyApply(p.log, fn, <<p.val, Arr0(x)>>))

ReduceLine(l, fn, init, ary) ==
    LET go[i \in 0..Len(ary)] ==
          IF i = 0 THEN [err |-> "", val |-> init, log |-> l]
          ELSE ReduceStep(go[i - 1], fn, ary[i])
    IN go[Len(ary)]

\* What array_map.f and array_scan.f return: the line they filled.
LineOut(m) == [err |-> m.err, log |-> m.log, out |-> m.y]

\* What array_reduce.f returns, stored as one element of the result.
ValueOut(m) ==
    IF m.err = "" /\ ~IsNum(m.val) THEN [err |-> "TypeError", log |-> m.log]
    ELSE [err |-> m.err, log |-> m.log,
          out |-> IF m.err = "" THEN NumOf(m.val) ELSE 0]

\* The local function f of array_map, array_scan or array_reduce on a line:
\* err, log and out, the line or the value f returns.  nditer refuses an
\* empty line.
Func1d(l, f, ary) ==
    IF Len(ary) = 0 THEN [err |-> "ValueError", log |-> l]
    ELSE IF f.def = "array_map.f" THEN LineOut(MapLine(l, f.fn, ary))
    ELSE IF f.def = "array_scan.f"
        THEN LineOut(ScanLine(l, f.fn, f.init, ary))
    ELSE ValueOut(ReduceLine(l, f.fn, f.init, ary))

\* The result of one more line, r being what f gave on it.
LineStore(p, r) ==
    IF r.err # "" THEN [err |-> r.err, outs |-> p.outs, log |-> r.log]
    ELSE [err |-> "", outs |-> Append(p.outs, r.out), log |-> r.log]

LineStep(p, f, line) ==
    IF p.err # "" THEN p ELSE LineStore(p, Func1d(p.log, f, line))

\* The axis counted from the front.
NormAxis(axis, array) ==
    IF IntOf(axis) < 0 THEN IntOf(axis) + NDim(array) ELSE IntOf(axis)

\* The array apply_along_axis returns from the lines' results.
Assemble(f, ax, array, end) ==
    IF end.err # "" THEN LRaise(end.log, end.err)
    ELSE IF f.def = "array_reduce.f"
        THEN LOk(end.log, FromScalars(array, ax, end.outs))
    ELSE LOk(end.log, FromLines(array, ax, end.outs))

\* f on every line of lines, in order.
EachLine(l, f, lines) ==
    LET go[m \in 0..Len(lines)] ==
          IF m = 0 THEN [err |-> "", outs |-> <<>>, log |-> l]
          ELSE LineStep(go[m - 1], f, lines[m])
    IN go[Len(lines)]

\* np.apply_along_axis(f, axis, array): f on every line along axis, in order.
apply_along_axis(l, f, axis, array) ==
    IF array.k # "array" \/ axis.k # "int" THEN LRaise(l, "TypeError")
    ELSE IF IntOf(axis) < -NDim(array) \/ IntOf(axis) >= NDim(array)
        THEN LRaise(l, "AxisError")
    ELSE IF Size(array) = 0 THEN LRaise(l, "ValueError")
    ELSE Assemble(f, NormAxis(axis, array), array,
                  EachLine(l, f, Lines(array, NormAxis(axis, array))))

(***************************************************************************)
(* The higher-order primitives, pure and for the VM.                       *)
(***************************************************************************)
array_map(l, fn, array) ==
    apply_along_axis(l, [def |-> "array_map.f", fn |-> fn], PyInt(0), array)

_array_map_vm(l, vm, fn, array) ==
    array_map(l, Closure("_array_map_vm.fn_", vm, fn), array)

array_scan(l, fn, init, array, axis) ==
    apply_along_axis(l, [def |-> "array_scan.f", fn |-> fn, init |-> init],
                     axis, array)

_array_scan_vm(l, vm, fn, init, array, axis) ==
    array_scan(l, Closure("_array_scan_vm.fn_", vm, fn), init, array, axis)

array_reduce(l, fn, init, array, axis) ==
    apply_along_axis(l, [def |-> "array_reduce.f", fn |-> fn, init |-> init],
                     axis, array)

\* _array_reduce_vm changed to hand fn itself to array_reduce.
_array_reduce_vm_direct(l, vm, fn, init, array, axis) ==
    array_reduce(l, fn, init, array, axis)

_array_reduce_vm(l, vm, fn, init, array, axis) ==
    array_reduce(l, Closure("_array_reduce_vm.fn_", vm, fn), init, array, axis)

\* One more element of list(map(f, xs)), r being what f gave on it.
ListStore(p, r) ==
    IF ~IsOk(r) THEN [err |-> r.err, ys |-> p.ys, log |-> r.log]
    ELSE [err |-> "", ys |-> Append(p.ys, r.val), log |-> r.log]

ListStep(p, f, x) ==
    IF p.err # "" THEN p ELSE ListStore(p, PyApply(p.log, f, <<x>>))

ListOut(end) ==
    IF end.err # "" THEN LRaise(end.log, end.err)
    ELSE LOk(end.log, PyList(end.ys))

\* list(map(f, xs)): f on every element, in order.
MapSeq(l, f, xs_) ==
    LET go[i \in 0..Len(xs_)] ==
          IF i = 0 THEN [err |-> "", ys |-> <<>>, log |-> l]
          ELSE ListStep(go[i - 1], f, xs_[i])
    IN ListOut(go[Len(xs_)])

list_map(l, f, xs_) ==
    IF ~IsSeq(xs_) THEN LRaise(l, "TypeError") ELSE MapSeq(l, f, xs_.items)

_list_map_vm(l, vm, f, xs_) ==
    IF ~IsSeq(xs_) THEN LRaise(l, "TypeError")
    ELSE MapSeq(l, Closure("_list_map_vm.f_", vm, f), xs_.items)

(***************************************************************************)
(* The registries.  The module's decorated definitions, in file order: the *)
(* decorator, the primitive and the function defined.                      *)
(***************************************************************************)
Def(deco, prim, fn) == [deco |-> deco, prim |-> prim, fn |-> fn]

ModuleDefs == <<
    Def("register", "scalar_add", "scalar_add"),
    Def("register", "scalar_sub", "scalar_sub"),
    Def("register", "scalar_mul", "scalar_mul"),
    Def("register", "scalar_div", "scalar_div"),
    Def("register", "scalar_mod", "scalar_mod"),
    Def("register", "scalar_pow", "scalar_pow"),
    Def("register", "scalar_uadd", "scalar_uadd"),
    Def("register", "scalar_usub", "scalar_usub"),
    Def("register", "scalar_eq", "scalar_eq"),
    Def("register", "scalar_lt", "scalar_lt"),
    Def("register", "scalar_gt", "scalar_gt"),
    Def("register", "scalar_ne", "scalar_ne"),
    Def("register", "scalar_le", "scalar_le"),
    Def("register", "scalar_ge", "scalar_ge"),
    Def("register", "bool_not", "bool_not"),
    Def("register", "typeof", "typeof"),
    Def("register", "hastype", "hastype"),
    Def("register", "cons_tuple", "cons_tuple"),
    Def("register", "head", "head"),
    Def("register", "tail", "tail"),
    Def("py_register", "getitem", "getitem"),
    Def("vm_register", "getitem", "_vm_getitem"),
    Def("register", "setitem", "setitem"),
    Def("vm_register", "getattr", "_vm_getattr"),
    Def("register", "setattr", "setattr"),
    Def("register", "shape", "shape"),
    Def("py_register", "array_map", "array_map"),
    Def("vm_register", "array_map", "_array_map_vm"),
    Def("py_register", "array_scan", "array_scan"),
    Def("vm_register", "array_scan", "_array_scan_vm"),
    Def("py_register", "array_reduce", "array_reduce"),
    Def("vm_register", "array_reduce", "_array_reduce_vm"),
    Def("register", "distribute", "distribute"),
    Def("register", "reshape", "reshape"),
    Def("register", "dot", "dot"),
    Def("register", "return_", "return_"),
    Def("py_register", "list_map", "list_map"),
    Def("vm_register", "list_map", "_list_map_vm"),
    Def("vm_register", "resolve", "_resolve_vm"),
    Def("py_register", "partial", "partial"),
    Def("register", "iter", "_iter"),
    Def("register", "hasnext", "_hasnext"),
    Def("register", "next", "_next") >>

\* A function defined in the module, and the wrapper register builds.
Fn(name) == [k |-> "def", name |-> name]

Lambda(fn) == [k |-> "lambda", fn |-> fn]

\* Registry.register(prim)(impl): the registry with prim bound to impl.
RegistryPut(reg, prim, impl) ==
    [p \in DOMAIN reg \cup {prim} |-> IF p = prim THEN impl ELSE reg[p]]

py_register(regs, prim, fn) ==
    [py |-> RegistryPut(regs.py, prim, fn), vm |-> regs.vm]

vm_register(regs, prim, fn) ==
    [py |-> regs.py, vm |-> RegistryPut(regs.vm, prim, fn)]

\* register changed to install fn itself for the VM (no wrapper dropping vm).
register_unwrapped(regs, prim, fn) ==
    py_register(vm_register(regs, prim, fn), prim, fn)

register(regs, prim, fn) ==
    py_register(vm_register(regs, prim, Lambda(fn)), prim, fn)

(***************************************************************************)
(* Calling an implementation.  CallDef calls, on the arguments a, the function  *)
(* of this module called name; a wrong arity is a TypeError.               *)
(***************************************************************************)
Unary == {"scalar_uadd", "scalar_usub", "bool_not", "typeof", "head", "tail",
          "return_", "_iter", "_hasnext", "_next"}

Binary == {"scalar_add", "scalar_sub", "scalar_mul", "scalar_eq", "scalar_lt",
           "scalar_gt", "scalar_ne", "scalar_le", "scalar_ge", "hastype",
           "cons_tuple", "array_map", "list_map"}

Arity(name) ==
    IF name \in Unary THEN 1
    ELSE IF name \in Binary THEN 2
    ELSE IF name \in {"_array_map_vm", "_list_map_vm"} THEN 3
    ELSE IF name \in {"array_scan", "array_reduce"} THEN 4
    ELSE 5

CallDef(l, name, a) ==
    IF Len(a) # Arity(name) THEN LRaise(l, "TypeError")
    ELSE CASE name = "scalar_add" -> Logged(l, scalar_add(a[1], a[2]))
           [] name = "scalar_sub" -> Logged(l, scalar_sub(a[1], a[2]))
           [] name = "scalar_mul" -> Logged(l, scalar_mul(a[1], a[2]))
           [] name = "scalar_uadd" -> Logged(l, scalar_uadd(a[1]))
           [] name = "scalar_usub" -> Logged(l, scalar_usub(a[1]))
           [] name = "scalar_eq" -> Logged(l, scalar_eq(a[1], a[2]))
           [] name = "scalar_lt" -> Logged(l, scalar_lt(a[1], a[2]))
           [] name = "scalar_gt" -> Logged(l, scalar_gt(a[1], a[2]))
           [] name = "scalar_ne" -> Logged(l, scalar_ne(a[1], a[2]))
           [] name = "scalar_le" -> Logged(l, scalar_le(a[1], a[2]))
           [] name = "scalar_ge" -> Logged(l, scalar_ge(a[1], a[2]))
           [] name = "bool_not" -> Logged(l, bool_not(a[1]))
           [] name = "typeof" -> Logged(l, typeof(a[1]))
           [] name = "hastype" -> Logged(l, hastype(a[1], a[2]))
           [] name = "cons_tuple" -> Logged(l, cons_tuple(a[1], a[2]))
           [] name = "head" -> Logged(l, head(a[1]))
           [] name = "tail" -> Logged(l, tail(a[1]))
           [] name = "return_" -> Logged(l, return_(a[1]))
           [] name = "_iter" -> Logged(l, _iter(a[1]))
           [] name = "_hasnext" -> Logged(l, _hasnext(a[1]))
           [] name = "_next" -> Logged(l, _next(a[1]))
           [] name = "array_map" -> array_map(l, a[1], a[2])
           [] name = "_array_map_vm" -> _array_map_vm(l, a[1], a[2], a[3])
           [] name = "array_scan" -> array_scan(l, a[1], a[2], a[3], a[4])
           [] name = "_array_scan_vm" ->
                  _array_scan_vm(l, a[1], a[2], a[3], a[4], a[5])
           [] name = "array_reduce" -> array_reduce(l, a[1], a[2], a[3], a[4])
           [] name = "_array_reduce_vm" ->
                  _array_reduce_vm(l, a[1], a[2], a[3], a[4], a[5])
           [] name = "list_map" -> list_map(l, a[1], a[2])
           [] name = "_list_map_vm" -> _list_map_vm(l, a[1], a[2], a[3])

\* The functions of the module CallDef runs.
Modelled == Unary \cup Binary \cup
            {"_array_map_vm", "_list_map_vm", "array_scan", "array_reduce",
             "_array_scan_vm", "_array_reduce_vm"}

\* A registry entry called on args: the wrapper register builds drops its
\* first argument.
CallImpl(l, impl, args) ==
    IF impl.k = "lambda" /\ Len(args) = 0 THEN LRaise(l, "TypeError")
    ELSE CallDef(l, IF impl.k = "lambda" THEN impl.fn.name ELSE impl.name,
                 IF impl.k = "lambda" THEN Tail(args) ELSE args)

(***************************************************************************)
(* The object store.  Every Python object the copy-then-mutate primitives  *)
(* touch lives at an address of heap; a reference is the value             *)
(* [k |-> "ref", addr |-> a].  Lists and plain objects are mutable, tuples *)
(* are not.  A primitive working on the store returns the store it leaves. *)
(***************************************************************************)
Ref(a) == [k |-> "ref", addr |-> a]

PyObj(attrs) == [k |-> "obj", attrs |-> attrs]

HOk(h, v) == [err |-> "", val |-> v, heap |-> h]

HRaise(h, e) == [err |-> e, heap |-> h]

\* Python's == between an int and any value.
PyEq(a, b) == b.k \in {"int", "bool", "float"} /\ IntOf(a) = IntOf(b)

\* copy.copy(data): a new object with the same (shared) contents.
copy(h, data) == HOk(Append(h, h[data.addr]), Ref(Len(h) + 1))

\* data2[item] = value on the object at data2.
StoreItem(h, data2, item, value) ==
    LET o == h[data2.addr]
        i == IntOf(item)
        n == IF o.k = "list" THEN Len(o.items) ELSE 0
        j == IF i < 0 THEN n + i + 1 ELSE i + 1
    IN IF o.k # "list" \/ ~IsIndex(item) THEN HRaise(h, "TypeError")
       ELSE IF j < 1 \/ j > n THEN HRaise(h, "IndexError")
       ELSE HOk([h EXCEPT ![data2.addr].items[j] = value], PyNone)

\* The builtin setattr(data2, attr, value).
py_setattr(h, data2, attr, value) ==
    LET o == h[data2.addr]
    IN IF o.k # "obj" THEN HRaise(h, "AttributeError")
       ELSE HOk([h EXCEPT ![data2.addr].attrs =
                     [a \in DOMAIN o.attrs \cup {attr} |->
                         IF a = attr THEN value ELSE o.attrs[a]]], PyNone)

setitem(h, data, item, value) ==
    IF h[data.addr].k = "tuple"
    THEN HOk(Append(h, PyTuple([i \in 1..Len(h[data.addr].items) |->
                 IF PyEq(PyInt(i - 1), item) THEN value
                 ELSE h[data.addr].items[i]])), Ref(Len(h) + 1))
    ELSE LET c == copy(h, data)
             st == StoreItem(c.heap, c.val, item, value)
         IN IF IsOk(st) THEN HOk(st.heap, c.val) ELSE HRaise(h, st.err)

setattr(h, data, attr, value) ==
    LET c == copy(h, data)
        st == py_setattr(c.heap, c.val, attr, value)
    IN IF IsOk(st) THEN HOk(st.heap, c.val) ELSE HRaise(h, st.err)

(***************************************************************************)
(* The three drivers keep to their own variables.                          *)
(***************************************************************************)
registryVars == <<py_implementations, vm_implementations, loaded, call, ret>>

iterVars == <<xs, it, out, calls, status, more>>

heapVars == <<heap, hcall, hret>>

NoCall == [op |-> "none"]

RegistryIdle ==
    /\ py_implementations = <<>>
    /\ vm_implementations = <<>>
    /\ loaded = 0
    /\ call = NoCall
    /\ ret = NoCall

IterIdle ==
    /\ xs = PyTuple(<<>>)
    /\ it = PyTuple(<<PyInt(0), PyTuple(<<>>)>>)
    /\ out = <<>>
    /\ calls = 0
    /\ status = ""
    /\ more = PyNone

HeapIdle ==
    /\ heap = <<>>
    /\ hcall = NoCall
    /\ hret = NoCall

IntValues == {PyInt(n) : n \in Ints}

Sources == {PyTuple(s) : s \in SeqsOf(IntValues, 0, MaxLen)}
           \cup {PyList(s) : s \in SeqsOf(IntValues, 0, MaxLen)}

(***************************************************************************)
(* The evaluator driver.  The module is loaded one definition at a time;   *)
(* once it is loaded, primitives are looked up in the two registries and   *)
(* called on both paths: the pure implementation on args, the VM           *)
(* implementation on the host vm followed by vargs.  The primitives keep   *)
(* no state, so the driver makes its calls one at a time.                  *)
(***************************************************************************)
InitSpec ==
    /\ py_implementations = <<>>
    /\ vm_implementations = <<>>
    /\ loaded = 0
    /\ call = NoCall
    /\ ret = NoCall
    /\ IterIdle
    /\ HeapIdle

LoadDef ==
    /\ loaded < Len(ModuleDefs)
    /\ LET d == ModuleDefs[loaded + 1]
           regs == [py |-> py_implementations, vm |-> vm_implementations]
           r == CASE d.deco = "register" -> register(regs, d.prim, Fn(d.fn))
                  [] d.deco = "py_register" ->
                         py_register(regs, d.prim, Fn(d.fn))
                  [] d.deco = "vm_register" ->
                         vm_register(regs, d.prim, Fn(d.fn))
       IN /\ py_implementations' = r.py
          /\ vm_implementations' = r.vm
    /\ loaded' = loaded + 1
    /\ UNCHANGED <<call, ret, iterVars, heapVars>>

DoCall(prim, args, vargs, vm) ==
    /\ prim \in DOMAIN py_implementations \cap DOMAIN vm_implementations
    /\ call' = [op |-> prim, args |-> args, vargs |-> vargs, vm |-> vm]
    /\ ret' = [py |-> CallImpl(<<>>, py_implementations[prim], args),
               vm |-> CallImpl(<<>>, vm_implementations[prim],
                               <<vm>> \o vargs)]
    /\ UNCHANGED <<py_implementations, vm_implementations, loaded,
                   iterVars, heapVars>>

\* The module is loaded and the driver has no call pending.
Ready == loaded = Len(ModuleDefs) /\ call = NoCall

Hosts == {Vm("invoke"), Vm("noop")}

\* The primitives registered with register whose function CallDef runs.
DualPrims == {ModuleDefs[i].prim : i \in
                 {j \in 1..Len(ModuleDefs) :
                     /\ ModuleDefs[j].deco = "register"
                     /\ ModuleDefs[j].fn \in Modelled}}

GenericArgs ==
    {PyInt(0), PyInt(2), PyInt(3), PyBool(TRUE), PyFloat(1), PyNone,
     PyTuple(<<>>), PyTuple(<<PyInt(1), PyInt(2)>>),
     PyArray(<<2>>, <<1, 2>>), Arr0(1),
     PyTuple(<<PyInt(0), PyTuple(<<PyInt(1)>>)>>)}

\* Any dually registered primitive on any argument list and host.
CallPrimitive ==
    /\ Ready
    /\ \E prim \in DualPrims, args \in SeqsOf(GenericArgs, 0, MaxArgs),
          vm \in Hosts :
           DoCall(prim, args, args, vm)

TupleElems == IntValues \cup {PyTuple(<<>>), PyNone}

Tuples == {PyTuple(t) : t \in SeqsOf(TupleElems, 0, MaxLen)}

CallTuple ==
    /\ Ready
    /\ \/ \E h \in TupleElems, t \in Tuples :
             DoCall("cons_tuple", <<h, t>>, <<h, t>>, Vm("noop"))
       \/ \E prim \in {"head", "tail"}, t \in Tuples :
             DoCall(prim, <<t>>, <<t>>, Vm("noop"))

TypeAtoms == {PyInt(0), PyFloat(0), PyNone, DInt(64)}

Flat == TypeAtoms \cup {PyTuple(t) : t \in SeqsOf(TypeAtoms, 0, MaxWidth)}
                  \cup {PyList(t) : t \in SeqsOf(TypeAtoms, 0, MaxWidth)}

Partners == {PyInt(0), PyTuple(<<PyFloat(0)>>)}

\* The values of V, each also wrapped and paired in a tuple and in a list.
Nest(V) ==
    V \cup {PyTuple(<<v>>) : v \in V} \cup {PyList(<<v>>) : v \in V}
      \cup {PyTuple(<<v, w>>) : v \in V, w \in Partners}
      \cup {PyList(<<v, w>>) : v \in V, w \in Partners}

RECURSIVE Nested(_)
Nested(d) == IF d <= 1 THEN Flat ELSE Nest(Nested(d - 1))

MoreInputs ==
    {PyBool(TRUE), PyBool(FALSE), PyClass("Int"), PyClass("int"), PyStr("a"),
     PyList(<<PyBool(TRUE), PyBool(FALSE)>>),
     PyList(<<PyBool(TRUE), PyInt(1)>>),
     PyTuple(<<PyBool(TRUE), PyClass("Type"), PyList(<<>>)>>)}

TypeInputs == Nested(MaxDepth) \cup MoreInputs

\* The type classes and a few other models hastype is asked about.
TypeClasses == {PyClass(c) : c \in DtypeClassNames}

OtherModels == {PyClass("int"), DInt(64), DTuple(<<>>), PyInt(0)}

CallType ==
    /\ Ready
    /\ \/ \E x \in TypeInputs : DoCall("typeof", <<x>>, <<x>>, Vm("noop"))
       \/ \E x \in TypeInputs :
             \E t \in TypeClasses \cup OtherModels
                      \cup (IF IsOk(typeof(x)) THEN {typeof(x).val} ELSE {}) :
                 DoCall("hastype", <<x, t>>, <<x, t>>, Vm("noop"))

ArrElems == 1..MaxElem

Arrays1 == {PyArray(<<n>>, d) : n \in 0..MaxLen, d \in SeqsOf(ArrElems, 0, MaxLen)}

Arrays ==
    {a \in Arrays1 : Len(a.data) = a.shape[1]}
    \cup UNION {{PyArray(<<r, c>>, d) : d \in [1..(r * c) -> {1, MaxElem}]} :
                   r \in 0..MaxDim, c \in 0..MaxDim}

Inits == {PyInt(0), PyInt(1)}

Axes == {PyInt(0), PyInt(1)}

\* The callable the pure path is given for the host function g: the native
\* function of that name, or the closure forwarding to the host's invoke.
PureCallables(g) == {Native(g.name), Closure("forward", PyNone, g)}

CallArrayMap ==
    /\ Ready
    /\ \E name \in {"inc", "dbl"}, array \in Arrays, vm \in Hosts :
           \E f \in PureCallables(Graph(name)) :
               DoCall("array_map", <<f, array>>, <<Graph(name), array>>, vm)

CallArrayScan ==
    /\ Ready
    /\ \E name \in {"add", "sub"}, init \in Inits, array \in Arrays,
          axis \in Axes, vm \in Hosts :
           \E f \in PureCallables(Graph(name)) :
               DoCall("array_scan", <<f, init, array, axis>>,
                      <<Graph(name), init, array, axis>>, vm)

CallArrayReduce ==
    /\ Ready
    /\ \E name \in {"add", "sub"}, init \in Inits, array \in Arrays,
          axis \in Axes, vm \in Hosts :
           \E f \in PureCallables(Graph(name)) :
               DoCall("array_reduce", <<f, init, array, axis>>,
                      <<Graph(name), init, array, axis>>, vm)

CallListMap ==
    /\ Ready
    /\ \E name \in {"inc", "dbl"}, s \in Sources, vm \in Hosts :
           \E f \in PureCallables(Graph(name)) :
               DoCall("list_map", <<f, s>>, <<Graph(name), s>>, vm)

\* The driver takes the results; it may then make another call.
Return ==
    /\ call # NoCall
    /\ call' = NoCall
    /\ ret' = NoCall
    /\ UNCHANGED <<py_implementations, vm_implementations, loaded,
                   iterVars, heapVars>>

Next ==
    \/ LoadDef
    \/ CallPrimitive
    \/ CallTuple
    \/ CallType
    \/ CallArrayMap
    \/ CallArrayScan
    \/ CallArrayReduce
    \/ CallListMap
    \/ Return

Spec == InitSpec /\ [][Next]_vars

(***************************************************************************)
(* What the claims about arrays speak of: the lines of an array along an   *)
(* axis, element by element, and the callable's function.                  *)
(***************************************************************************)
\* The arguments of the last array_scan or array_reduce call are an array
\* with elements and an axis it has.
AxisCallValid ==
    /\ Size(call.args[3]) > 0
    /\ IntOf(call.args[4]) >= -NDim(call.args[3])
    /\ IntOf(call.args[4]) < NDim(call.args[3])

CallAxis == NormAxis(call.args[4], call.args[3])

NLines(array, ax) ==
    IF NDim(array) = 1 THEN 1 ELSE array.shape[IF ax = 0 THEN 2 ELSE 1]

LineLen(array, ax) ==
    IF NDim(array) = 1 THEN array.shape[1] ELSE array.shape[ax + 1]

\* Element i of line number line of array along ax.
At(array, ax, line, i) ==
    IF NDim(array) = 1 THEN array.data[i]
    ELSE IF ax = 0 THEN array.data[(i - 1) * array.shape[2] + line]
    ELSE array.data[(line - 1) * array.shape[2] + i]

FnName(f) == IF f.k = "native" THEN f.name ELSE f.fn.name

F(name, x, y) == IF name = "add" THEN x + y ELSE x - y

\* fn(...fn(fn(init, a[1]), a[2])..., a[i]) on line number line.
RECURSIVE FoldTo(_, _, _, _, _, _)
FoldTo(name, init, array, ax, line, i) ==
    IF i = 0 THEN init
    ELSE F(name, FoldTo(name, init, array, ax, line, i - 1),
           At(array, ax, line, i))

\* The k-th call a left fold of every line in turn makes to fn.
FoldCall(g, init, array, ax, k) ==
    LET line == ((k - 1) \div LineLen(array, ax)) + 1
        i == ((k - 1) % LineLen(array, ax)) + 1
    IN [fn |-> g,
        args |-> <<IF i = 1 THEN init
                   ELSE PyInt(FoldTo(g.name, NumOf(init), array, ax, line,
                                     i - 1)),
                   Arr0(At(array, ax, line, i))>>]

HigherOrder == {"array_map", "array_scan", "array_reduce", "list_map"}

(***************************************************************************)
(* C3: for array_map, array_scan, array_reduce and list_map, the VM        *)
(* implementation called with the host whose call hook is invoke returns   *)
(* the same result and makes the same host calls, in the same order, as    *)
(* the pure implementation called with the closure forwarding to invoke.   *)
(***************************************************************************)
VmAgreesWithPure ==
    call.op \in HigherOrder
      /\ call.vm = Vm("invoke")
      /\ call.args[1] = Closure("forward", PyNone, call.vargs[1])
    => ret.vm = ret.py

VmAgreesWitness ==
    /\ call.op = "array_reduce"
    /\ call.vm = Vm("invoke")
    /\ call.args[1] = Closure("forward", PyNone, Graph("sub"))
    /\ NDim(call.args[3]) = 2
    /\ IsOk(ret.vm)
    /\ Len(ret.vm.log) >= 4
    /\ ret.vm = ret.py

(***************************************************************************)
(* C4: every primitive defined under register is in both registries, and   *)
(* on any argument list and any host its VM entry gives the result or the  *)
(* error of its pure entry, without a call to the host.                    *)
(***************************************************************************)
DualRegistration ==
    /\ \A i \in 1..loaded :
          ModuleDefs[i].deco = "register"
          => /\ ModuleDefs[i].prim \in DOMAIN py_implementations
             /\ ModuleDefs[i].prim \in DOMAIN vm_implementations
    /\ call.op \in DualPrims
       => /\ ret.vm.err = ret.py.err
          /\ IsOk(ret.py) => ret.vm.val = ret.py.val
          /\ ret.vm.log = <<>>

DualRegistrationWitness ==
    /\ call.op = "scalar_add"
    /\ call.args = <<PyInt(2), PyInt(3)>>
    /\ call.vm = Vm("noop")
    /\ ret.py.val = PyInt(5)
    /\ ret.vm.val = PyInt(5)

(***************************************************************************)
(* C5: array_scan is an inclusive running fold along axis: on every line a *)
(* the output line o is as long as a, o[0] = fn(init, a[0]) and            *)
(* o[i] = fn(o[i-1], a[i]); [1,2,3] with init 0 and add gives [1,3,6].     *)
(***************************************************************************)
ScanInclusive ==
    call.op = "array_scan" /\ AxisCallValid
    => /\ IsOk(ret.py)
       /\ ret.py.val.shape = call.args[3].shape
       /\ Len(ret.py.val.data) = Len(call.args[3].data)
       /\ \A line \in 1..NLines(call.args[3], CallAxis),
             i \in 1..LineLen(call.args[3], CallAxis) :
             At(ret.py.val, CallAxis, line, i)
               = F(FnName(call.args[1]),
                   IF i = 1 THEN NumOf(call.args[2])
                   ELSE At(ret.py.val, CallAxis, line, i - 1),
                   At(call.args[3], CallAxis, line, i))

ScanInclusiveWitness ==
    /\ call.op = "array_scan"
    /\ call.args = <<Native("add"), PyInt(0), PyArray(<<3>>, <<1, 2, 3>>),
                     PyInt(0)>>
    /\ ret.py = LOk(<<>>, PyArray(<<3>>, <<1, 3, 6>>))

(***************************************************************************)
(* C6: array_reduce is a left fold along axis from init: each line a gives *)
(* fn(...fn(fn(init, a[0]), a[1])..., a[n-1]), fn called in increasing     *)
(* index order, every line starting again from init, one value per line;   *)
(* [1,2,3] with init 0 and add gives 6.                                    *)
(***************************************************************************)
ReduceLeftFold ==
    call.op = "array_reduce" /\ AxisCallValid
    => /\ IsOk(ret.py)
       /\ ret.py.val.shape =
            (IF NDim(call.args[3]) = 1 THEN <<>>
             ELSE <<NLines(call.args[3], CallAxis)>>)
       /\ Len(ret.py.val.data) = NLines(call.args[3], CallAxis)
       /\ \A line \in 1..NLines(call.args[3], CallAxis) :
             ret.py.val.data[line]
               = FoldTo(FnName(call.args[1]), NumOf(call.args[2]),
                        call.args[3], CallAxis, line,
                        LineLen(call.args[3], CallAxis))
       /\ call.args[1].k = "closure"
          => /\ Len(ret.py.log) = Size(call.args[3])
             /\ \A k \in 1..Len(ret.py.log) :
                   ret.py.log[k] = FoldCall(call.args[1].fn, call.args[2],
                                            call.args[3], CallAxis, k)

ReduceLeftFoldWitness ==
    /\ call.op = "array_reduce"
    /\ call.args = <<Native("add"), PyInt(0), PyArray(<<3>>, <<1, 2, 3>>),
                     PyInt(0)>>
    /\ ret.py = LOk(<<>>, Arr0(6))

(***************************************************************************)
(* C7 as stated: hastype(x, typeof(x)) is true for every x typeof accepts, *)
(* and hastype(x, C) for a type class C is true if and only if typeof(x)   *)
(* is an instance of C.                                                    *)
(***************************************************************************)
HastypeAsStated ==
    call.op = "hastype" /\ Len(call.args) = 2 /\ IsOk(typeof(call.args[1]))
    => /\ call.args[2] = typeof(call.args[1]).val
          => ret.py = LOk(<<>>, PyBool(TRUE))
       /\ call.args[2] \in TypeClasses
          => ret.py = LOk(<<>>, PyBool(IsInstanceOf(typeof(call.args[1]).val,
                                                    call.args[2])))

(***************************************************************************)
(* C7 amended: hastype(x, typeof(x)) is true for every x typeof accepts,   *)
(* and hastype(x, C) for a type class C is true if and only if typeof(x)   *)
(* is an instance of C or is C itself (x a type, C the class Type).        *)
(***************************************************************************)
HastypeConsistent ==
    call.op = "hastype" /\ Len(call.args) = 2 /\ IsOk(typeof(call.args[1]))
    => /\ call.args[2] = typeof(call.args[1]).val
          => ret.py = LOk(<<>>, PyBool(TRUE))
       /\ call.args[2] \in TypeClasses
          => ret.py = LOk(<<>>, PyBool(
                 \/ IsInstanceOf(typeof(call.args[1]).val, call.args[2])
                 \/ typeof(call.args[1]).val = call.args[2]))

HastypeWitness ==
    /\ call.op = "hastype"
    /\ Len(call.args) = 2
    /\ call.args[1] = PyTuple(<<PyTuple(<<PyInt(0), PyFloat(0)>>),
                                PyTuple(<<PyFloat(0)>>)>>)
    /\ call.args[2] = typeof(call.args[1]).val
    /\ ret.py = LOk(<<>>, PyBool(TRUE))

(***************************************************************************)
(* C9: on the empty tuple head raises IndexError and tail raises           *)
(* IndexError; neither returns a value.                                    *)
(***************************************************************************)
HeadTailEmptyFail ==
    call.op \in {"head", "tail"} /\ call.args = <<PyTuple(<<>>)>>
    => ret.py = LRaise(<<>>, "IndexError")

(***************************************************************************)
(* C10: for every value h and tuple t, the empty one included,             *)
(* head(cons_tuple(h, t)) = h and tail(cons_tuple(h, t)) = t (t, a tuple,  *)
(* is a value and cannot change).                                          *)
(***************************************************************************)
ConsRoundTrip ==
    call.op = "cons_tuple" /\ Len(call.args) = 2 /\ call.args[2].k = "tuple"
    => /\ IsOk(ret.py)
       /\ head(ret.py.val) = Ok(call.args[1])
       /\ tail(ret.py.val) = Ok(call.args[2])

ConsRoundTripWitness ==
    /\ call.op = "cons_tuple"
    /\ Len(call.args) = 2
    /\ call.args[2] = PyTuple(<<>>)
    /\ ret.py.val = PyTuple(<<call.args[1]>>)
    /\ head(ret.py.val) = Ok(call.args[1])
    /\ tail(ret.py.val) = Ok(PyTuple(<<>>))

(***************************************************************************)
(* The iterator driver: iter(xs), then next fed with the iterator the      *)
(* previous next returned, hasnext asked at any point.  The driver stops   *)
(* at the first error.                                                     *)
(***************************************************************************)
InitIter ==
    /\ xs \in Sources
    /\ it = _iter(xs).val
    /\ out = <<>>
    /\ calls = 0
    /\ status = ""
    /\ more = PyNone
    /\ RegistryIdle
    /\ HeapIdle

IterNext ==
    /\ status = ""
    /\ calls' = calls + 1
    /\ LET r == _next(it)
       IN IF IsOk(r)
          THEN /\ out' = Append(out, r.val.items[1])
               /\ it' = r.val.items[2]
               /\ status' = ""
               /\ more' = PyNone
          ELSE /\ status' = r.err
               /\ UNCHANGED <<out, it, more>>
    /\ UNCHANGED <<xs, registryVars, heapVars>>

IterHasNext ==
    /\ status = ""
    /\ more' = _hasnext(it).val
    /\ UNCHANGED <<xs, it, out, calls, status, registryVars, heapVars>>

NextIter == IterNext \/ IterHasNext

SpecIter == InitIter /\ [][NextIter]_vars

(***************************************************************************)
(* C1: from iter(xs) with len(xs) = n, the first n calls to next succeed   *)
(* and return xs[0], ..., xs[n-1] in order, the (n+1)-th call raises       *)
(* IndexError, the cursor stays within 0..n, and hasnext answers false     *)
(* exactly when the cursor is n.                                           *)
(***************************************************************************)
IteratorProtocol ==
    LET n == Len(xs.items)
        c == IntOf(it.items[1])
    IN /\ c \in 0..n
       /\ it.items[2] = xs
       /\ calls <= n => /\ status = ""
                        /\ c = calls
                        /\ out = SubSeq(xs.items, 1, calls)
       /\ calls > n => /\ calls = n + 1
                       /\ status = "IndexError"
                       /\ c = n
                       /\ out = xs.items
       /\ _hasnext(it) = Ok(PyBool(c # n))
       /\ more.k = "bool" => (more.b <=> c < n)

IteratorDrained ==
    /\ Len(xs.items) >= 2
    /\ calls = Len(xs.items) + 1
    /\ status = "IndexError"
    /\ out = xs.items

(***************************************************************************)
(* The store driver: a list, a tuple and a plain object are in the store;  *)
(* setitem and setattr are called on any of them and on their results.     *)
(***************************************************************************)
Items == {PyInt(i) : i \in -(MaxLen + 1)..(MaxLen + 1)}

AttrNames == {"x", "y"}

InitHeap ==
    /\ \E s \in SeqsOf(IntValues, 0, MaxLen) :
          heap = <<PyList(s), PyTuple(s), PyObj([x |-> PyInt(0)])>>
    /\ hcall = NoCall
    /\ hret = NoCall
    /\ RegistryIdle
    /\ IterIdle

HeapSetItem ==
    /\ Len(heap) < MaxHeap
    /\ \E a \in 1..Len(heap), item \in Items, value \in IntValues :
          LET r == setitem(heap, Ref(a), item, value)
          IN /\ hcall' = [op |-> "setitem", data |-> Ref(a), item |-> item,
                          value |-> value, before |-> heap]
             /\ hret' = IF IsOk(r) THEN Ok(r.val) ELSE Raise(r.err)
             /\ heap' = r.heap
    /\ UNCHANGED <<registryVars, iterVars>>

HeapSetAttr ==
    /\ Len(heap) < MaxHeap
    /\ \E a \in 1..Len(heap), attr \in AttrNames, value \in IntValues :
          LET r == setattr(heap, Ref(a), attr, value)
          IN /\ hcall' = [op |-> "setattr", data |-> Ref(a), attr |-> attr,
                          value |-> value, before |-> heap]
             /\ hret' = IF IsOk(r) THEN Ok(r.val) ELSE Raise(r.err)
             /\ heap' = r.heap
    /\ UNCHANGED <<registryVars, iterVars>>

NextHeap == HeapSetItem \/ HeapSetAttr

SpecHeap == InitHeap /\ [][NextHeap]_vars

\* Every object that was in the store before the last call is as it was.
ArgumentsUntouched ==
    \A a \in 1..Len(hcall.before) : heap[a] = hcall.before[a]

\* item is an index data accepts under Python's indexing.
NativeIndex(h, data, item) == IsOk(PyIndex(h[data.addr].items, IntOf(item)))

(***************************************************************************)
(* C2: setitem and setattr leave their argument as it was; for an index    *)
(* valid under the container's own indexing r = setitem(d, i, v) has       *)
(* r[i] = v, and r = setattr(d, name, v) has r.name = v.                   *)
(***************************************************************************)
SetNeverMutates ==
    /\ hcall.op = "setitem"
         /\ hcall.before[hcall.data.addr].k \in {"tuple", "list"}
         /\ NativeIndex(hcall.before, hcall.data, hcall.item)
       => /\ IsOk(hret)
          /\ ArgumentsUntouched
          /\ PyIndex(heap[hret.val.addr].items, IntOf(hcall.item))
               = Ok(hcall.value)
    /\ hcall.op = "setattr" /\ hcall.before[hcall.data.addr].k = "obj"
       => /\ IsOk(hret)
          /\ ArgumentsUntouched
          /\ heap[hret.val.addr].attrs[hcall.attr] = hcall.value

(***************************************************************************)
(* C8: setitem raises IndexError whenever the index is out of range for    *)
(* data, tuple or mutable container alike, and returns nothing then.       *)
(***************************************************************************)
SetItemOutOfRangeFails ==
    hcall.op = "setitem"
      /\ hcall.before[hcall.data.addr].k \in {"tuple", "list"}
      /\ ~NativeIndex(hcall.before, hcall.data, hcall.item)
    => hret = Raise("IndexError")

====
